---- MODULE Spec2Model ----
(***************************************************************************)
(* Session lifecycle and read operations of the ICICI Breeze API client:   *)
(* BreezeAuth (src/src/auth/breeze_auth.py) and BreezeClient               *)
(* (src/src/api/breeze_client.py) over the process-wide config object      *)
(* (src/src/utils/config.py).                                              *)
(*                                                                         *)
(* Time is counted in whole hours.  Every public method is one action; the *)
(* remote service's answer and the time that passes while a method runs    *)
(* are inputs of the action.                                               *)
(***************************************************************************)
EXTENDS Integers, Sequences, FiniteSets, TLC

VARIABLES
    session_token,   \* BreezeAuth.session_token
    session_expiry,  \* BreezeAuth.session_expiry
    session_created, \* clock value read when session_expiry was last stored
    config_token,    \* config.breeze_session_token
    now,             \* datetime.now(), in hours
    last             \* the last call: its inputs, what it returned, what it sent

vars == <<session_token, session_expiry, session_created, config_token, now, last>>

\* ---------------------------------------------------------------- bounds
MaxClock == 25      \* the clock stops advancing here
MaxTick  == 12      \* the clock advances between calls by 1 or by this much
MaxDrift == 1       \* largest advance of the clock between two reads of it inside one call

\* ------------------------------------------------------- program constants
SessionHours == 23  \* timedelta(hours=23)
HTTP_OK      == 200 \* response.status_code == 200 / data.get('Status') == 200

\* ------------------------------------------------------------ Python values
None     == "None"          \* None, where a str is expected
NoExpiry == 0 - 1           \* None, where a datetime is expected

PyNone        == [kind |-> "None", items |-> <<>>]
PyDict(items) == [kind |-> "dict", items |-> items]
PyList(items) == [kind |-> "list", items |-> items]
PyStr(s)      == [kind |-> "str",  items |-> <<s>>]

\* truth value of an Optional[str]: None and "" are false
Truthy(s) == s # None /\ s # ""

\* ------------------------------------------------------------ remote answers
\* One HTTP exchange as the code sees it:
\*   exc      requests.post/get raised
\*   code     response.status_code
\*   json     response.json() yields a JSON object (otherwise it raises, or
\*            the value has no .get)
\*   Status   data.get('Status')
\*   Success  how data carries 'Success': "absent", "null", or "value"
\*   token    data['Success'].get('session_token')   (authenticate only)
\*   value    data['Success']                        (reads only)
Resp(exc, code, json, Status, Success, token, value) ==
    [exc |-> exc, code |-> code, json |-> json, Status |-> Status,
     Success |-> Success, token |-> token, value |-> value]

TransportError == Resp(TRUE, 0, FALSE, 0, "absent", None, PyNone)
HttpReply(c)   == Resp(FALSE, c, FALSE, 0, "absent", None, PyNone)
BadBody        == Resp(FALSE, 200, FALSE, 0, "absent", None, PyNone)
RemoteError(s) == Resp(FALSE, 200, TRUE, s, "absent", None, PyNone)

SessionTokens == {"tok1", "tok2"}

AuthResponses ==
    {TransportError, HttpReply(503), BadBody, RemoteError(500)}
    \cup {Resp(FALSE, 200, TRUE, 200, "value", t, PyNone) : t \in SessionTokens \cup {None, ""}}
    \cup {Resp(FALSE, 200, TRUE, 200, "absent", None, PyNone),
          Resp(FALSE, 200, TRUE, 200, "null", None, PyNone),
          Resp(FALSE, 200, TRUE, 500, "value", "tok1", PyNone)}

Payloads == {PyDict(<<"cash">>), PyList(<<"h1", "h2">>)}

ReadResponses ==
    {TransportError, HttpReply(503), BadBody, RemoteError(500)}
    \cup {Resp(FALSE, 200, TRUE, 200, "value", None, p) : p \in Payloads}
    \cup {Resp(FALSE, 200, TRUE, 200, "absent", None, PyNone),
          Resp(FALSE, 200, TRUE, 200, "null", None, PyNone),
          Resp(FALSE, 200, TRUE, 500, "value", None, PyDict(<<"cash">>))}

LogoutResponses == {TransportError, HttpReply(500), HttpReply(200)}

AuthenticateAnswers ==
    {HttpReply(503), Resp(FALSE, 200, TRUE, 200, "value", "tok1", PyNone)}

NoResp == Resp(FALSE, 0, FALSE, 0, "absent", None, PyNone)

\* ------------------------------------------------------------------ strings
\* A str is a sequence of pieces; + is \o.
SecretKey   == <<"secret">>     \* config.breeze_secret_key
EmptyObject == <<"{}">>         \* json.dumps({})

\* datetime.now(timezone.utc).isoformat() at hour t:
\* date, 'T', hh:mm:ss, microseconds, UTC offset
isoformat(t) ==
    <<"D", ToString(t \div 24), "T", ToString(t % 24), ":00:00", ".000000", "+00:00">>

\* hashlib.sha256(s.encode("utf-8")).hexdigest(), taken as collision free:
\* the digest stands for the string it was computed from
sha256_hexdigest(s) == <<"sha256">> \o s

\* the X-Timestamp / X-Checksum headers of a signed request; both are empty
\* on the requests that carry none (authenticate, logout)
Signature(timestamp, checksum) == [X_Timestamp |-> timestamp, X_Checksum |-> checksum]

Unsigned == Signature(<<>>, <<>>)

\* an HTTP request the code issued: token is the X-SessionToken header (reads)
\* or the bearer token (logout)
Request(method, path, token, signed) ==
    [method |-> method, path |-> path, token |-> token, signed |-> signed]

\* ------------------------------------------------------------- call record
Call(op, raised, ok, msg, ret, reqs, valid, resp) ==
    [op |-> op, raised |-> raised, ok |-> ok, msg |-> msg, ret |-> ret,
     reqs |-> reqs, valid |-> valid, resp |-> resp]

EnvTokens == {None, "env"}   \* os.getenv('BREEZE_SESSION_TOKEN')

Init ==
    /\ session_token = None
    /\ session_expiry = NoExpiry
    /\ session_created = NoExpiry
    /\ config_token \in EnvTokens
    /\ now = 0
    /\ last = Call("init", FALSE, FALSE, "", PyNone, <<>>, FALSE, NoResp)

\* --------------------------------------------------------------- BreezeAuth
\* validate_session with the expiry comparison off by one (>= for >)
validate_session_expires_early(t) ==
    IF ~Truthy(session_token) THEN FALSE
    ELSE IF session_expiry # NoExpiry /\ t >= session_expiry THEN FALSE
    ELSE TRUE

validate_session(t) ==
    IF ~Truthy(session_token) THEN FALSE
    ELSE IF session_expiry # NoExpiry /\ t > session_expiry THEN FALSE
    ELSE TRUE

get_session_token(t) ==
    IF validate_session(t) THEN session_token ELSE None

\* generate_session storing the token before it looks at the envelope's Status
generate_session_result_store_first(resp) ==
    LET raised == [ok |-> FALSE, msg |-> "Exception during authentication",
                   store |-> FALSE, token |-> None]
    IN  IF resp.exc THEN raised
        ELSE IF resp.code = HTTP_OK THEN
            IF ~resp.json \/ resp.Success = "null" THEN raised
            ELSE [ok |-> (resp.Status = HTTP_OK),
                  msg |-> IF resp.Status = HTTP_OK THEN "Session generated successfully"
                                                   ELSE "Authentication failed",
                  store |-> TRUE,
                  token |-> IF resp.Success = "absent" THEN None ELSE resp.token]
        ELSE [ok |-> FALSE, msg |-> "HTTP Error", store |-> FALSE, token |-> None]

\* What generate_session does with the remote's answer: the pair it returns
\* and, when store is TRUE, the token it stores.
generate_session_result(resp) ==
    LET raised == [ok |-> FALSE, msg |-> "Exception during authentication",
                   store |-> FALSE, token |-> None]
    IN  IF resp.exc THEN raised
        ELSE IF resp.code = HTTP_OK THEN
            IF ~resp.json THEN raised
            ELSE IF resp.Status = HTTP_OK THEN
                IF resp.Success = "null" THEN raised
                ELSE [ok |-> TRUE, msg |-> "Session generated successfully",
                      store |-> TRUE,
                      token |-> IF resp.Success = "absent" THEN None ELSE resp.token]
            ELSE [ok |-> FALSE, msg |-> "Authentication failed",
                  store |-> FALSE, token |-> None]
        ELSE [ok |-> FALSE, msg |-> "HTTP Error", store |-> FALSE, token |-> None]

generate_session ==
    \E resp \in AuthResponses :
        LET r == generate_session_result(resp)
        IN  /\ IF r.store
               THEN /\ session_token' = r.token
                    /\ session_expiry' = now + SessionHours
                    /\ session_created' = now
                    /\ config_token' = r.token
               ELSE UNCHANGED <<session_token, session_expiry, session_created, config_token>>
            /\ last' = Call("generate_session", FALSE, r.ok, r.msg, PyNone,
                            <<Request("POST", "/authenticate", None, Unsigned)>>,
                            validate_session(now), resp)
            /\ UNCHANGED now

\* What BreezeAuth.logout does: whether it calls the remote, whether it clears
\* the session, and what it returns.
logout_result(token, resp) ==
    IF ~Truthy(token) THEN [sent |-> FALSE, clear |-> FALSE, ok |-> TRUE]
    ELSE IF resp.exc THEN [sent |-> TRUE, clear |-> TRUE, ok |-> TRUE]
    ELSE [sent |-> TRUE, clear |-> TRUE, ok |-> (resp.code = HTTP_OK)]

\* BreezeClient.logout delegates to BreezeAuth.logout
logout ==
    \E resp \in (IF Truthy(session_token) THEN LogoutResponses ELSE {NoResp}) :
        LET r == logout_result(session_token, resp)
        IN  /\ IF r.clear
               THEN /\ session_token' = None
                    /\ session_expiry' = NoExpiry
                    /\ session_created' = NoExpiry
                    /\ config_token' = None
               ELSE UNCHANGED <<session_token, session_expiry, session_created, config_token>>
            /\ last' = Call("logout", FALSE, r.ok, "", PyNone,
                            IF r.sent THEN <<Request("POST", "/logout", session_token, Unsigned)>>
                                      ELSE <<>>,
                            validate_session(now), resp)
            /\ UNCHANGED now

\* the wall clock advances between calls
Tick ==
    \E d \in {1, MaxTick} :
        /\ now + d <= MaxClock
        /\ now' = now + d
        /\ last' = Call("tick", FALSE, FALSE, "", PyNone, <<>>, validate_session(now), NoResp)
        /\ UNCHANGED <<session_token, session_expiry, session_created, config_token>>

\* BreezeAuth.validate_session() called directly
call_validate_session ==
    /\ last' = Call("validate_session", FALSE, validate_session(now), "", PyNone, <<>>,
                    validate_session(now), NoResp)
    /\ UNCHANGED <<session_token, session_expiry, session_created, config_token, now>>

\* get_session_token() that renews an expired session instead of returning None
call_get_session_token_renewing ==
    /\ last' = Call("get_session_token", FALSE, FALSE, "",
                    IF Truthy(session_token) THEN PyStr(session_token) ELSE PyNone,
                    <<>>, validate_session(now), NoResp)
    /\ IF Truthy(session_token) /\ ~validate_session(now)
       THEN /\ session_expiry' = now + SessionHours
            /\ session_created' = now
       ELSE UNCHANGED <<session_expiry, session_created>>
    /\ UNCHANGED <<session_token, config_token, now>>

\* BreezeAuth.get_session_token() called directly
call_get_session_token ==
    /\ last' = Call("get_session_token", FALSE, FALSE, "",
                    IF get_session_token(now) = None THEN PyNone
                                                     ELSE PyStr(get_session_token(now)),
                    <<>>, validate_session(now), NoResp)
    /\ UNCHANGED <<session_token, session_expiry, session_created, config_token, now>>

\* BreezeAuth.get_auth_headers(): raises ValueError without a valid session,
\* otherwise returns the headers carrying 'Bearer ' + session_token
get_auth_headers ==
    /\ last' = Call("get_auth_headers", ~validate_session(now), FALSE,
                    IF validate_session(now) THEN "" ELSE "ValueError",
                    IF validate_session(now) THEN PyDict(<<session_token>>) ELSE PyNone,
                    <<>>, validate_session(now), NoResp)
    /\ UNCHANGED <<session_token, session_expiry, session_created, config_token, now>>

\* ------------------------------------------------------------- BreezeClient
_compute_checksum(timestamp, payload) ==
    sha256_hexdigest(timestamp \o payload \o SecretKey)

\* the timestamp string built in _get_auth_headers from the clock at hour t:
\* the first 19 characters of the ISO form (up to the seconds) + '.000Z'
header_timestamp(t) == SubSeq(isoformat(t), 1, 5) \o <<".000Z">>

\* _get_auth_headers that reads the clock once for the checksum (at t1) and
\* once more for the X-Timestamp header (at t2)
_get_auth_headers_two_timestamps(payload, t1, t2) ==
    [ok |-> validate_session(t1),
     X_Checksum |-> <<"token ">> \o _compute_checksum(header_timestamp(t1), payload),
     X_Timestamp |-> header_timestamp(t2),
     X_SessionToken |-> get_session_token(t2)]

\* _get_auth_headers(payload): the validity check and the timestamp are taken
\* at t1, the token is read through get_session_token() at t2 >= t1.
\* ok = FALSE stands for the ValueError.
_get_auth_headers(payload, t1, t2) ==
    LET timestamp == header_timestamp(t1)
        checksum  == _compute_checksum(timestamp, payload)
    IN  [ok |-> validate_session(t1),
         X_Checksum |-> <<"token ">> \o checksum,
         X_Timestamp |-> timestamp,
         X_SessionToken |-> get_session_token(t2)]

\* the envelope mapping without the check of the envelope's Status field
envelope_result_ignoring_status(resp, default) ==
    IF resp.exc THEN PyNone
    ELSE IF resp.code = HTTP_OK THEN
        IF ~resp.json THEN PyNone
        ELSE CASE resp.Success = "absent" -> default
               [] resp.Success = "null"   -> PyNone
               [] OTHER                   -> resp.value
    ELSE PyNone

\* How get_account_balance / get_portfolio turn the remote's answer into their
\* return value; default is the second argument of data.get('Success', ...).
envelope_result(resp, default) ==
    IF resp.exc THEN PyNone
    ELSE IF resp.code = HTTP_OK THEN
        IF ~resp.json THEN PyNone
        ELSE IF resp.Status = HTTP_OK THEN
            CASE resp.Success = "absent" -> default
              [] resp.Success = "null"   -> PyNone
              [] OTHER                   -> resp.value
        ELSE PyNone
    ELSE PyNone

\* The body shared by get_account_balance and get_portfolio.  The method reads
\* the clock at t0 (its own validity check), at t0 + d1 (_get_auth_headers) and
\* at t0 + d1 + d2 (get_session_token); at is the last clock value it read.
read_result(path, default, resp, t0, d1, d2) ==
    IF ~validate_session(t0)
    THEN [ret |-> PyNone, reqs |-> <<>>, at |-> t0]
    ELSE LET h == _get_auth_headers(EmptyObject, t0 + d1, t0 + d1 + d2)
         IN  IF ~h.ok
             THEN [ret |-> PyNone, reqs |-> <<>>, at |-> t0 + d1]
             ELSE [ret |-> envelope_result(resp, default),
                   reqs |-> <<Request("GET", path, h.X_SessionToken,
                                      Signature(h.X_Timestamp, h.X_Checksum))>>,
                   at |-> t0 + d1 + d2]

\* how far the clock moves between the three reads of one call
Drifts == {d \in (0..MaxDrift) \X (0..MaxDrift) : d[1] + d[2] <= MaxDrift}

\* the remote answers only when the call gets as far as sending its request
ReadAnswers(t0, d1) ==
    IF validate_session(t0) /\ validate_session(t0 + d1) THEN ReadResponses ELSE {NoResp}

get_account_balance ==
    \E d \in Drifts : \E resp \in ReadAnswers(now, d[1]) :
        LET r == read_result("/funds", PyDict(<<>>), resp, now, d[1], d[2])
        IN  /\ r.at <= MaxClock
            /\ now' = r.at
            /\ last' = Call("get_account_balance", FALSE, FALSE, "", r.ret, r.reqs,
                            validate_session(now),
                            resp)
            /\ UNCHANGED <<session_token, session_expiry, session_created, config_token>>

get_portfolio ==
    \E d \in Drifts : \E resp \in ReadAnswers(now, d[1]) :
        LET r == read_result("/dematholdings", PyList(<<>>), resp, now, d[1], d[2])
        IN  /\ r.at <= MaxClock
            /\ now' = r.at
            /\ last' = Call("get_portfolio", FALSE, FALSE, "", r.ret, r.reqs,
                            validate_session(now),
                            resp)
            /\ UNCHANGED <<session_token, session_expiry, session_created, config_token>>

\* the order lists the remote may hold when the orders methods are called; an
\* order is modelled by its status field
RemoteOrders ==
    {<<>>, <<"FILLED", "CANCELLED">>, <<"OPEN", "FILLED", "PENDING">>,
     <<"PENDING", "FILLED", "OPEN", "CANCELLED", "PARTIALLY_FILLED">>}

OrdersAnswer(orders) == Resp(FALSE, 200, TRUE, 200, "value", None, PyList(orders))

\* the orders methods without their validity check
orders_result_unguarded(t0) == PyList(<<>>)

\* The body shared by get_open_orders and get_order_history: the validity
\* check, then the empty list; no request is made.
orders_result(t0) ==
    IF ~validate_session(t0) THEN PyNone ELSE PyList(<<>>)

\* resp records the orders the remote holds at the time of the call
get_open_orders ==
    \E orders \in RemoteOrders :
        /\ last' = Call("get_open_orders", FALSE, FALSE, "", orders_result(now), <<>>,
                        validate_session(now), OrdersAnswer(orders))
        /\ UNCHANGED <<session_token, session_expiry, session_created, config_token, now>>

Days == {1, 7}

get_order_history ==
    \E orders \in RemoteOrders, days \in Days :
        /\ last' = Call("get_order_history", FALSE, FALSE, "", orders_result(now), <<>>,
                        validate_session(now), OrdersAnswer(orders))
        /\ UNCHANGED <<session_token, session_expiry, session_created, config_token, now>>

\* BreezeClient.authenticate() calls self.auth.generate_session() without the
\* two required arguments: the call raises TypeError before generate_session's
\* body runs.
\* resp records the answer the remote has ready for the authenticate endpoint
authenticate ==
    \E resp \in AuthenticateAnswers :
        /\ last' = Call("authenticate", TRUE, FALSE, "TypeError", PyNone, <<>>,
                        validate_session(now), resp)
        /\ UNCHANGED <<session_token, session_expiry, session_created, config_token, now>>

\* is_authenticated() that drops a session it finds expired
is_authenticated_clearing ==
    /\ last' = Call("is_authenticated", FALSE, validate_session(now), "", PyNone, <<>>,
                    validate_session(now), NoResp)
    /\ IF Truthy(session_token) /\ ~validate_session(now)
       THEN /\ session_token' = None
            /\ session_expiry' = NoExpiry
            /\ session_created' = NoExpiry
       ELSE UNCHANGED <<session_token, session_expiry, session_created>>
    /\ UNCHANGED <<config_token, now>>

is_authenticated ==
    /\ last' = Call("is_authenticated", FALSE, validate_session(now), "", PyNone, <<>>,
                    validate_session(now), NoResp)
    /\ UNCHANGED <<session_token, session_expiry, session_created, config_token, now>>

\* config.validate_config(): the three required values are all non-empty
validate_config(api_key, secret_key, token) ==
    Truthy(api_key) /\ Truthy(secret_key) /\ Truthy(token)

EnvKeys == {None, "key"}   \* os.getenv('BREEZE_API_KEY'), os.getenv('BREEZE_SECRET_KEY')

\* What one run of main() does, as the steps it performs and how it ends.
\* With an invalid configuration it returns after test_configuration.
\* Otherwise test_authentication builds a BreezeClient and calls
\* authenticate(), whose TypeError leaves main() before the try block: the
\* read tests and the logout in the finally block are never reached.
main_result(api_key, secret_key, token) ==
    IF ~validate_config(api_key, secret_key, token)
    THEN [raised |-> FALSE, msg |-> "Configuration test failed",
          steps |-> <<"test_configuration">>]
    ELSE [raised |-> TRUE, msg |-> "TypeError",
          steps |-> <<"test_configuration", "test_authentication">>]

\* main() of test_breeze_api.py, the entry point of a fresh process; ret lists
\* the steps the run performed
main ==
    \E api_key \in EnvKeys, secret_key \in EnvKeys :
        LET r == main_result(api_key, secret_key, config_token)
        IN  /\ last.op = "init"
            /\ last' = Call("main", r.raised, FALSE, r.msg, PyList(r.steps), <<>>,
                            validate_session(now), NoResp)
            /\ UNCHANGED <<session_token, session_expiry, session_created, config_token, now>>

Next ==
    \/ generate_session
    \/ logout
    \/ Tick
    \/ call_validate_session
    \/ call_get_session_token
    \/ get_auth_headers
    \/ get_account_balance
    \/ get_portfolio
    \/ get_open_orders
    \/ get_order_history
    \/ authenticate
    \/ is_authenticated
    \/ main

Spec == Init /\ [][Next]_vars

\* ====================================================================
\* Properties
\* ====================================================================
ReadOps == {"get_account_balance", "get_portfolio", "get_open_orders", "get_order_history"}

\* the remote's answer is HTTP 200 carrying an envelope whose Status is 200
IsSuccessAnswer(resp) ==
    ~resp.exc /\ resp.code = 200 /\ resp.json /\ resp.Status = 200

\* the remote's answer is one of: transport exception, HTTP status other than
\* 200, HTTP 200 with an envelope whose Status is not 200
IsFailureAnswer(resp) ==
    \/ resp.exc
    \/ resp.code # 200
    \/ (resp.json /\ resp.Status # 200)

SessionAbsent == session_token = None /\ session_expiry = NoExpiry

\* C1: right after a generate_session call that returned True, with no clock
\* advance in between, validate_session() is true, whatever the remote
\* answered (also a 200/Status-200 envelope with no or an empty session_token).
C1_SuccessImpliesValid ==
    (last.op = "generate_session" /\ last.ok) => validate_session(now)

\* C2: in every reachable state validate_session() is true exactly when a
\* (non-empty) session token is stored and the clock is at or before the stored
\* expiry; it is never true while the expiry is absent.
C2_ValidIffTokenAndUnexpired ==
    validate_session(now) <=>
        (Truthy(session_token) /\ session_expiry # NoExpiry /\ now <= session_expiry)

\* C2 witness: validate_session() was called at the very hour of the expiry
\* and returned True.
C2_Witness ==
    /\ last.op = "validate_session"
    /\ last.ok
    /\ now = session_expiry

\* C3: the stored session is either absent (token and expiry both None) or a
\* non-empty token together with an expiry strictly later than the clock at
\* the moment it was stored.
C3_SessionInvariant ==
    \/ SessionAbsent
    \/ /\ Truthy(session_token)
       /\ session_expiry # NoExpiry
       /\ session_expiry > session_created

\* C4: a generate_session call that the remote answers with a failure (non-200
\* HTTP, HTTP 200 with Status # 200, transport exception) returns False, and a
\* generate_session call that returns False leaves session_token,
\* session_expiry and config.breeze_session_token as they were, so that
\* validate_session() stays false if it was false.
C4_FailedGenerateStoresNothing ==
    [][ (last'.op = "generate_session") =>
            /\ (IsFailureAnswer(last'.resp) => ~last'.ok)
            /\ (~last'.ok =>
                    /\ UNCHANGED <<session_token, session_expiry, config_token>>
                    /\ (~validate_session(now) => ~validate_session(now)')) ]_vars

\* C4 witness: the remote answered HTTP 200 with Status 500 and a token in the
\* body; the call returned False and the session stored before is still there.
C4_Witness ==
    /\ last.op = "generate_session"
    /\ ~last.ok
    /\ last.resp.Status = 500
    /\ last.resp.token = "tok1"
    /\ session_token = "tok2"

\* C5: after logout() returns, from any prior state and for every remote
\* outcome, session_token and session_expiry are both None and
\* validate_session() is false.
C5_LogoutClearsSession ==
    last.op = "logout" => (SessionAbsent /\ ~validate_session(now))

\* C6: every logout() call returns True whatever the remote does, and a second
\* logout() directly after a first returns True and leaves the session absent.
C6_LogoutReportsSuccess ==
    [][ (last'.op = "logout") =>
            /\ last'.ok
            /\ (last.op = "logout" => SessionAbsent') ]_vars

\* C7: a read method called while validate_session() is false returns the
\* failure value (None) and issues no HTTP request.
C7_NoSessionGuard ==
    (last.op \in ReadOps /\ ~last.valid) => (last.ret = PyNone /\ last.reqs = <<>>)

\* C7 witness: get_open_orders was called with an expired session and failed.
C7_Witness ==
    /\ last.op = "get_open_orders"
    /\ ~last.valid
    /\ Truthy(session_token)
    /\ now > session_expiry
    /\ last.ret = PyNone

\* C8: once the clock is past the stored expiry validate_session() is false,
\* and no step other than a generate_session call that returns True takes
\* validate_session() from false to true.
C8_NoAutomaticRenewal ==
    /\ []((session_expiry # NoExpiry /\ now > session_expiry) => ~validate_session(now))
    /\ [][ (~validate_session(now) /\ validate_session(now)') =>
               (last'.op = "generate_session" /\ last'.ok) ]_vars

\* C8 witness: get_session_token() was called on an expired session and
\* returned None; the session is still expired.
C8_Witness ==
    /\ last.op = "get_session_token"
    /\ last.ret = PyNone
    /\ Truthy(session_token)
    /\ now > session_expiry
    /\ ~validate_session(now)

\* the value data.get('Success', default) of a success answer
SuccessPayload(resp, default) ==
    CASE resp.Success = "value" -> resp.value
      [] resp.Success = "null"  -> PyNone
      [] OTHER                  -> default

\* C9: when get_account_balance / get_portfolio sent their request, they
\* return the envelope's Success payload if the answer is HTTP 200 with
\* Status 200, and the failure value (None) for every other answer.
C9_EnvelopeMapping ==
    (last.op \in {"get_account_balance", "get_portfolio"} /\ last.reqs # <<>>) =>
        IF IsSuccessAnswer(last.resp)
        THEN last.ret = SuccessPayload(last.resp,
                            IF last.op = "get_portfolio" THEN PyList(<<>>) ELSE PyDict(<<>>))
        ELSE last.ret = PyNone

\* C9 witness: get_portfolio returned the holdings the remote sent.
C9_Witness ==
    /\ last.op = "get_portfolio"
    /\ last.valid
    /\ IsSuccessAnswer(last.resp)
    /\ last.ret = PyList(<<"h1", "h2">>)

OpenStatuses == {"PENDING", "OPEN", "PARTIALLY_FILLED"}

IsOpenOrder(order) == order \in OpenStatuses

\* C10: with a valid session get_open_orders() returns exactly the remote's
\* orders whose status is PENDING, OPEN or PARTIALLY_FILLED, in their original
\* relative order.
C10_OpenOrdersFiltered ==
    (last.op = "get_open_orders" /\ last.valid) =>
        last.ret = PyList(SelectSeq(last.resp.value.items, IsOpenOrder))

\* C11: no public method of BreezeClient or BreezeAuth ends by raising: every
\* call returns a value, whatever the session state and the remote's answer.
PublicMethods ==
    {"authenticate", "get_account_balance", "get_portfolio", "get_open_orders",
     "get_order_history", "logout", "is_authenticated", "generate_session",
     "validate_session", "get_session_token", "get_auth_headers"}

C11_NoExceptionEscapes ==
    last.op \in PublicMethods => ~last.raised

\* C12: in every header set one _get_auth_headers(payload) call returns, the
\* X-Checksum value is 'token ' + checksum(X-Timestamp, payload, secret) for
\* the very X-Timestamp value of that header set, also when the clock moves
\* during the call.
C12_HeaderConsistency ==
    \A i \in 1..Len(last.reqs) :
        last.reqs[i].method = "GET" =>
            last.reqs[i].signed.X_Checksum =
                <<"token ">> \o sha256_hexdigest(last.reqs[i].signed.X_Timestamp
                                                 \o EmptyObject \o SecretKey)

\* C12 witness: get_account_balance sent a signed request in a call during
\* which the clock moved on after the timestamp was taken.
C12_Witness ==
    /\ last.op = "get_account_balance"
    /\ Len(last.reqs) = 1
    /\ last.reqs[1].signed.X_Timestamp # header_timestamp(now)
    /\ last.reqs[1].signed.X_Timestamp = header_timestamp(now - 1)

\* C13 (the checksum is a pure, collision-free function of timestamp, payload
\* and secret key) is not stated: _compute_checksum is an operator, so two
\* evaluations on equal arguments agree in any model, and the absence of
\* collisions is a property of SHA-256 that sha256_hexdigest assumes.

\* C14: while the session stored by a successful generate_session is in place,
\* its expiry is the clock value of that call plus 23 hours, and
\* validate_session() is true up to and including the expiry and false after.
C14_ExpiryIs23Hours ==
    session_created # NoExpiry =>
        /\ session_expiry = session_created + 23
        /\ (validate_session(now) <=> now <= session_expiry)

\* C15: the return value of get_account_balance / get_portfolio tells success
\* from failure: no success answer (HTTP 200, Status 200) yields the value
\* that the failure answers yield (None).
C15_SuccessDistinguishable ==
    (last.op \in {"get_account_balance", "get_portfolio"} /\ last.reqs # <<>>) =>
        (IsSuccessAnswer(last.resp) <=> last.ret # PyNone)

\* C16: a run of main() performs configuration validation, authentication,
\* the read tests and, whichever earlier step failed, the logout step.
C16_MainAlwaysLogsOut ==
    last.op = "main" =>
        /\ last.ret.items[1] = "test_configuration"
        /\ \E i \in 1..Len(last.ret.items) : last.ret.items[i] = "logout"

\* C17: BreezeClient.authenticate() returns True and leaves is_authenticated()
\* true when the remote answers HTTP 200, Status 200 with a non-empty
\* session_token, and returns False otherwise.
C17_AuthenticateWorks ==
    last.op = "authenticate" =>
        /\ ~last.raised
        /\ (last.ok <=> (IsSuccessAnswer(last.resp) /\ Truthy(last.resp.token)))
        /\ (last.ok => validate_session(now))

\* C18: every header set _get_auth_headers returns carries the stored,
\* non-empty session token as X-SessionToken, also when the clock passes the
\* expiry between the validity check and the read of the token.
C18_HeadersCarryToken ==
    \A i \in 1..Len(last.reqs) :
        last.reqs[i].method = "GET" =>
            (Truthy(last.reqs[i].token) /\ last.reqs[i].token = session_token)

QueryOps == {"validate_session", "is_authenticated", "get_session_token"} \cup ReadOps

\* C19: validate_session, is_authenticated, get_session_token and the four
\* read methods leave session_token, session_expiry and
\* config.breeze_session_token unchanged, whatever the remote answers, and
\* validate_session / is_authenticated issue no HTTP request.
C19_QueriesChangeNothing ==
    [][ (last'.op \in QueryOps) =>
            /\ UNCHANGED <<session_token, session_expiry, config_token>>
            /\ (last'.op \in {"validate_session", "is_authenticated"} => last'.reqs = <<>>) ]_vars

\* C19 witness: is_authenticated() was called on an expired session and
\* answered False; the expired session is still stored.
C19_Witness ==
    /\ last.op = "is_authenticated"
    /\ ~last.ok
    /\ session_token = "tok2"
    /\ config_token = "tok2"
    /\ now > session_expiry

\* C20: after every generate_session call that returned True and after every
\* logout call, config.breeze_session_token equals BreezeAuth.session_token.
C20_ConfigMirrorsSession ==
    (last.op = "logout" \/ (last.op = "generate_session" /\ last.ok)) =>
        config_token = session_token

====
